---------------------------- MODULE Spec2Model ----------------------------
(***************************************************************************)
(* Rowing oar strain calculator, Theory 1 (clamped cantilever).            *)
(*                                                                         *)
(* src/theory1.py       class OarStrainCalculator and the two sweeps       *)
(* src/theory1strain.py calc_theory1_strain                                *)
(*                                                                         *)
(* Every quantity of the program is a Python float.  A float is modelled   *)
(* as a binary floating-point number <<m, e>> of value m * 2^e whose       *)
(* mantissa has Prec bits (2^(Prec-1) <= |m| < 2^Prec, or <<0, 0>> for     *)
(* zero), and every arithmetic operation rounds its exact result to the    *)
(* nearest such number, ties to even, as IEEE 754 does.  Python's float    *)
(* has 53 bits; the model keeps the rounding and narrows the mantissa.     *)
(* The exponent is not bounded: the model has no overflow or underflow.    *)
(* The two zeros of IEEE 754 compare equal in Python and are one value.    *)
(***************************************************************************)
EXTENDS Integers, Sequences, FiniteSets, TLC

\* Bits of mantissa of the model's floats.
Prec == 24

---------------------------------------------------------------------------
(* Floating-point arithmetic                                               *)
(*                                                                         *)
(* The operations are functions: a function's arguments are values, each   *)
(* computed once.                                                          *)

Flt == Int \X Int

Pow2[k \in Nat] == 2^k

\* Number of bits of n (0 for 0), n < 2^30.
BitLen[n \in Nat] ==
    CHOOSE k \in 0..30 : n < Pow2[k] /\ (k = 0 \/ Pow2[k - 1] <= n)

Zero == <<0, 0>>

IsZero(a) == a[1] = 0

Abs(n) == IF n < 0 THEN -n ELSE n

Sgn(n) == IF n < 0 THEN -1 ELSE 1

\* M with its n bits cut to Prec: the float nearest to s * M * 2^e.
RoundBits[s \in Int, M \in Nat, sticky \in BOOLEAN, e \in Int, n \in Nat] ==
    IF n <= Prec
    THEN <<s * M * Pow2[Prec - n], e - (Prec - n)>>
    ELSE LET k    == n - Prec
             q    == M \div Pow2[k]
             r    == M % Pow2[k]
             half == Pow2[k - 1]
             up   == r > half \/ (r = half /\ (sticky \/ q % 2 = 1))
             q1   == IF up THEN q + 1 ELSE q
         IN  IF q1 = Pow2[Prec]
             THEN <<s * Pow2[Prec - 1], e + k + 1>>
             ELSE <<s * q1, e + k>>

\* The float nearest to s * M * 2^e (M > 0), ties to even.  sticky says
\* that the exact value lies strictly above M * 2^e in magnitude, by less
\* than 2^e; it is then required that M has more than Prec bits.
Round[s \in Int, M \in Nat, sticky \in BOOLEAN, e \in Int] ==
    RoundBits[s, M, sticky, e, BitLen[M]]

\* An integer literal, or an int converted to float.
FromInt[n \in Int] == IF n = 0 THEN Zero ELSE Round[Sgn(n), Abs(n), FALSE, 0]

fneg[a \in Flt] == <<-a[1], a[2]>>

fabs[a \in Flt] == <<Abs(a[1]), a[2]>>

\* a < b
flt[a \in Flt, b \in Flt] ==
    LET ma == a[1]
        mb == b[1]
    IN  IF ma = 0 \/ mb = 0 \/ Sgn(ma) # Sgn(mb)
        THEN (IF ma = 0 THEN 0 ELSE Sgn(ma)) < (IF mb = 0 THEN 0 ELSE Sgn(mb))
        ELSE IF ma > 0
             THEN a[2] < b[2] \/ (a[2] = b[2] /\ ma < mb)
             ELSE a[2] > b[2] \/ (a[2] = b[2] /\ ma < mb)

fle[a \in Flt, b \in Flt] == a = b \/ flt[a, b]

fmax[a \in Flt, b \in Flt] == IF flt[a, b] THEN b ELSE a

\* x + y for |x| >= |y| > 0, d the difference of their exponents: y is
\* aligned to x with three extra bits, the last of them sticky.
AddAligned[x \in Flt, y \in Flt, d \in Nat] ==
    LET X  == Abs(x[1]) * 8
        Y8 == Abs(y[1]) * 8
        Yq == Y8 \div Pow2[d]
        Y  == IF Y8 % Pow2[d] = 0 THEN Yq ELSE (Yq \div 2) * 2 + 1
        S  == IF Sgn(x[1]) = Sgn(y[1]) THEN X + Y ELSE X - Y
    IN  IF S = 0 THEN Zero ELSE Round[Sgn(x[1]), S, FALSE, x[2] - 3]

\* a + b
fadd[a \in Flt, b \in Flt] ==
    IF IsZero(a) THEN b
    ELSE IF IsZero(b) THEN a
    ELSE IF a[2] < b[2] \/ (a[2] = b[2] /\ Abs(a[1]) < Abs(b[1]))
         THEN AddAligned[b, a, IF b[2] - a[2] > Prec + 2 THEN Prec + 3
                               ELSE b[2] - a[2]]
         ELSE AddAligned[a, b, IF a[2] - b[2] > Prec + 2 THEN Prec + 3
                               ELSE a[2] - b[2]]

\* a - b
fsub[a \in Flt, b \in Flt] == fadd[a, fneg[b]]

\* Hi * 2^(2h) + Lo cut to three bits below Hi, the rest sticky.
MulRound[s \in Int, Hi \in Nat, Lo \in Nat, e \in Int, h \in Nat] ==
    Round[s, Hi * 8 + (Lo \div Pow2[2 * h - 3]), Lo % Pow2[2 * h - 3] # 0,
          e + 2 * h - 3]

\* a * b: the exact product of the mantissas in two halves.
fmul[a \in Flt, b \in Flt] ==
    IF IsZero(a) \/ IsZero(b) THEN Zero
    ELSE LET h  == (Prec + 1) \div 2
             a1 == Abs(a[1]) \div Pow2[h]
             a0 == Abs(a[1]) % Pow2[h]
             b1 == Abs(b[1]) \div Pow2[h]
             b0 == Abs(b[1]) % Pow2[h]
             cr == a1 * b0 + a0 * b1
             L  == (cr % Pow2[h]) * Pow2[h] + a0 * b0
         IN  MulRound[Sgn(a[1]) * Sgn(b[1]),
                      a1 * b1 + (cr \div Pow2[h]) + (L \div Pow2[2 * h]),
                      L % Pow2[2 * h], a[2] + b[2], h]

\* Long division, five bits at a time: <<quotient, remainder>> of
\* (q * d + r) * 2^n by d.
DivStep[q \in Nat, r \in Nat, d \in Nat, n \in Nat] ==
    IF n = 0 THEN <<q, r>>
    ELSE IF n >= 5
         THEN DivStep[q * 32 + ((r * 32) \div d), (r * 32) % d, d, n - 5]
         ELSE DivStep[q * 2 + ((r * 2) \div d), (r * 2) % d, d, n - 1]

DivRound[s \in Int, qr \in Nat \X Nat, e \in Int] ==
    Round[s, qr[1], qr[2] # 0, e]

\* a / b for b # 0.
fdiv[a \in Flt, b \in Flt] ==
    IF IsZero(a) THEN Zero
    ELSE DivRound[Sgn(a[1]) * Sgn(b[1]),
                  DivStep[Abs(a[1]) \div Abs(b[1]), Abs(a[1]) % Abs(b[1]),
                          Abs(b[1]), Prec + 1],
                  a[2] - b[2] - (Prec + 1)]

\* A decimal literal n/d, read as the nearest float.
FromRat[n \in Int, d \in Int] == fdiv[FromInt[n], FromInt[d]]

---------------------------------------------------------------------------
(* Python values                                                           *)

\* np.pi, the float nearest to pi: PiBits is floor(pi * 2^28).
PiBits == 843314856

np_pi == Round[1, PiBits, TRUE, -28]

\* The value of a local not yet assigned.
None == "None"

\* The outcome of a call: the value it returns, or the exception it raises
\* (Python's float division raises ZeroDivisionError on a zero divisor).
Return(v) == [exc |-> "", val |-> v]

Raise(e) == [exc |-> e, val |-> None]

ZeroDivisionError == Raise("ZeroDivisionError")

Raised(r) == r.exc # ""

\* A local: Body with v the value of e, computed once.
The(S) == CHOOSE v \in S : TRUE

Bind(e, Body(_)) == The({Body(v) : v \in {e}})

\* D**4 and h**3.  The model's diameters and heights have squares that are
\* exact, so the product of the squares is D^4 rounded once.
fpow4[a \in Flt] == fmul[fmul[a, a], fmul[a, a]]

fpow3[a \in Flt] == fmul[fmul[a, a], a]

---------------------------------------------------------------------------
(* src/theory1.py: class OarStrainCalculator                               *)

OarStrainCalculator ==
    [x_F   |-> FromInt[900],
     x_b   |-> FromInt[200],
     L_b   |-> FromInt[100],
     D_o_s |-> FromInt[38],
     D_i_s |-> FromInt[32],
     h_b   |-> FromInt[2],
     b     |-> FromInt[12],
     e_b   |-> FromInt[20],
     E_s   |-> FromInt[140000],
     E_b   |-> FromInt[69000],
     GF    |-> FromRat[215, 100],
     V_ex  |-> FromRat[33, 10],
     F     |-> FromInt[1962]]

\* Mutant: inner and outer diameter exchanged.
calc_shaft_inertia_exchanged(self) ==
    Bind(self.D_o_s, LAMBDA D_o :
    Bind(self.D_i_s, LAMBDA D_i :
    fmul[fdiv[np_pi, FromInt[64]], fsub[fpow4[D_i], fpow4[D_o]]]))

calc_shaft_inertia(self) ==
    Bind(self.D_o_s, LAMBDA D_o :
    Bind(self.D_i_s, LAMBDA D_i :
    fmul[fdiv[np_pi, FromInt[64]], fsub[fpow4[D_o], fpow4[D_i]]]))

calc_beam_inertia(self) ==
    fdiv[fmul[self.b, fpow3[self.h_b]], FromInt[12]]

\* Mutant: the gauge at the end of the beam, not at its middle.
calc_gauge_position_beam_end(self) ==
    fadd[self.x_b, self.L_b]

calc_gauge_position(self) ==
    fadd[self.x_b, fdiv[self.L_b, FromInt[2]]]

\* Mutant: the bottom surface on the wrong side of the neutral axis.
calc_gauge_radii_bottom_above(self) ==
    Bind(fadd[fdiv[self.D_o_s, FromInt[2]], self.e_b], LAMBDA y_b :
    Bind(fadd[y_b, fdiv[self.h_b, FromInt[2]]], LAMBDA y_top :
    Bind(fadd[y_b, fdiv[self.h_b, FromInt[2]]], LAMBDA y_bottom :
    <<y_b, y_top, y_bottom>>)))

calc_gauge_radii(self) ==
    Bind(fadd[fdiv[self.D_o_s, FromInt[2]], self.e_b], LAMBDA y_b :
    Bind(fadd[y_b, fdiv[self.h_b, FromInt[2]]], LAMBDA y_top :
    Bind(fsub[y_b, fdiv[self.h_b, FromInt[2]]], LAMBDA y_bottom :
    <<y_b, y_top, y_bottom>>)))

\* Mutant: the beam's stiffness added to the shaft's.
calc_curvature_with_beam(self, x) ==
    Bind(calc_shaft_inertia(self), LAMBDA I_s :
    Bind(fadd[fmul[self.E_s, I_s], fmul[self.E_b, calc_beam_inertia(self)]],
         LAMBDA divisor :
    IF IsZero(divisor) THEN ZeroDivisionError
    ELSE Return(fdiv[fmul[self.F, fsub[self.x_F, x]], divisor])))

\* Mutant: a zero divisor gives curvature zero.
calc_curvature_guarded(self, x) ==
    Bind(calc_shaft_inertia(self), LAMBDA I_s :
    Bind(fmul[self.E_s, I_s], LAMBDA divisor :
    IF IsZero(divisor) THEN Return(Zero)
    ELSE Return(fdiv[fmul[self.F, fsub[self.x_F, x]], divisor])))

\* Mutant: the lever arm taken from the beam root, not from x.
calc_curvature_from_root(self, x) ==
    Bind(calc_shaft_inertia(self), LAMBDA I_s :
    Bind(fmul[self.E_s, I_s], LAMBDA divisor :
    IF IsZero(divisor) THEN ZeroDivisionError
    ELSE Return(fdiv[fmul[self.F, fsub[self.x_F, self.x_b]], divisor])))

\* Mutant: the parentheses of the lever arm forgotten, F * x_F - x.
calc_curvature_no_parentheses(self, x) ==
    Bind(calc_shaft_inertia(self), LAMBDA I_s :
    Bind(fmul[self.E_s, I_s], LAMBDA divisor :
    IF IsZero(divisor) THEN ZeroDivisionError
    ELSE Return(fdiv[fsub[fmul[self.F, self.x_F], x], divisor])))

calc_curvature(self, x) ==
    Bind(calc_shaft_inertia(self), LAMBDA I_s :
    Bind(fmul[self.E_s, I_s], LAMBDA divisor :
    IF IsZero(divisor) THEN ZeroDivisionError
    ELSE Return(fdiv[fmul[self.F, fsub[self.x_F, x]], divisor])))

\* The mechanical strains of calc_strains and the dict it returns.
strains(x_gauge, y_b, y_top, y_bottom, kappa) ==
    Bind(fmul[kappa, y_top], LAMBDA eps_top :
    Bind(fmul[kappa, y_bottom], LAMBDA eps_bottom :
    Bind(fsub[eps_top, eps_bottom], LAMBDA delta_eps :
    [x_gauge            |-> x_gauge,
     y_b                |-> y_b,
     y_top              |-> y_top,
     y_bottom           |-> y_bottom,
     curvature          |-> kappa,
     eps_top            |-> eps_top,
     eps_bottom         |-> eps_bottom,
     delta_eps          |-> delta_eps,
     eps_top_ustrain    |-> fmul[eps_top, FromInt[1000000]],
     eps_bottom_ustrain |-> fmul[eps_bottom, FromInt[1000000]],
     delta_eps_ustrain  |-> fmul[delta_eps, FromInt[1000000]]])))

calc_strains(self) ==
    Bind(calc_gauge_position(self), LAMBDA x_gauge :
    Bind(calc_gauge_radii(self), LAMBDA radii :
    Bind(calc_curvature(self, x_gauge), LAMBDA call :
    IF Raised(call) THEN call
    ELSE Return(strains(x_gauge, radii[1], radii[2], radii[3], call.val)))))

calc_bridge_output(self) ==
    Bind(calc_strains(self), LAMBDA call :
    IF Raised(call) THEN call ELSE
    Bind(call.val, LAMBDA results :
    Bind(results.delta_eps, LAMBDA delta_eps :
    Return(fmul[fdiv[self.GF, FromInt[2]], delta_eps]))))

---------------------------------------------------------------------------
(* src/theory1strain.py                                                    *)

calc_theory1_strain(F, x_F, x_b, L_b, D_o_s, D_i_s, h_b, e_b, E_s) ==
    Bind(fadd[x_b, fdiv[L_b, FromInt[2]]], LAMBDA x_gauge :
    Bind(fmul[fdiv[np_pi, FromInt[64]], fsub[fpow4[D_o_s], fpow4[D_i_s]]],
         LAMBDA I_s :
    Bind(fadd[fdiv[D_o_s, FromInt[2]], e_b], LAMBDA y_b :
    Bind(fadd[y_b, fdiv[h_b, FromInt[2]]], LAMBDA y_top :
    Bind(fsub[y_b, fdiv[h_b, FromInt[2]]], LAMBDA y_bottom :
    Bind(fmul[F, fsub[x_F, x_gauge]], LAMBDA moment :
    Bind(fmul[E_s, I_s], LAMBDA divisor :
    IF IsZero(divisor) THEN ZeroDivisionError ELSE
    Bind(fdiv[fmul[moment, y_top], divisor], LAMBDA eps_top :
    Bind(fdiv[fmul[moment, y_bottom], divisor], LAMBDA eps_bottom :
    Bind(fdiv[fmul[moment, h_b], divisor], LAMBDA delta_eps :
    Return([eps_top_ustrain    |-> fmul[eps_top, FromInt[1000000]],
            eps_bottom_ustrain |-> fmul[eps_bottom, FromInt[1000000]],
            delta_eps_ustrain  |-> fmul[delta_eps, FromInt[1000000]],
            eps_top            |-> eps_top,
            eps_bottom         |-> eps_bottom,
            delta_eps          |-> delta_eps])
    ))))))))))

---------------------------------------------------------------------------
(* The program's state and its callers                                     *)

VARIABLES
    calc,    \* the OarStrainCalculator instance of the callers
    log,     \* the calls made so far, the latest first, the last `keep` of them
    keep,    \* how many calls the log remembers
    shared,  \* concurrent callers: whether the evaluating caller uses calc
    own,     \* concurrent callers: the evaluating caller's own instance
    sweep,   \* concurrent callers: the sweep and how far it has come
    pc,      \* concurrent callers: where the evaluating caller stands
    loc      \* concurrent callers: the evaluating caller's locals

vars == <<calc, log, keep, shared, own, sweep, pc, loc>>

threads == <<shared, own, sweep, pc, loc>>

\* forces and heights of the two parametric studies.
forces ==
    <<FromInt[0], FromInt[500], FromInt[1000], FromInt[1500], FromInt[1962],
      FromInt[2500]>>

heights == <<FromInt[1], FromRat[3, 2], FromInt[2], FromRat[5, 2], FromInt[3]>>

Range(s) == {s[i] : i \in DOMAIN s}

\* A call is remembered with the instance as it was when the call was made
\* and with what it returned or raised.
Remember(op, ret) ==
    log' = SubSeq(<<[op |-> op, ret |-> ret, self |-> calc]>> \o log, 1,
                  IF Len(log) < keep THEN Len(log) + 1 ELSE keep)

\* The locals of the evaluating caller and of the frames it is in.
NoLocals ==
    [frame    |-> "",
     x_gauge  |-> Zero, y_b |-> Zero, y_top |-> Zero, y_bottom |-> Zero,
     I_s      |-> Zero, kappa |-> Zero,
     results  |-> strains(Zero, Zero, Zero, Zero, Zero),
     delta_eps |-> Zero, V_ratio |-> Zero]

\* One caller, no sweep beside it.
NoThreads ==
    /\ shared = FALSE
    /\ own = OarStrainCalculator
    /\ sweep = [study |-> "none", i |-> 0]
    /\ pc = "idle"
    /\ loc = NoLocals

\* calc = OarStrainCalculator()
Init ==
    /\ calc = OarStrainCalculator
    /\ log = <<>>
    /\ keep = 2
    /\ NoThreads

\* calc.F = F
SetF ==
    \E F \in Range(forces) :
        /\ calc' = [calc EXCEPT !.F = F]
        /\ UNCHANGED <<log, keep, threads>>

\* Mutant: calc_strains keeps the gauge position in the beam root field.
CalcStrainsStoring ==
    /\ Remember("calc_strains", calc_strains(calc))
    /\ calc' = [calc EXCEPT !.x_b = calc_gauge_position(calc)]
    /\ UNCHANGED <<keep, threads>>

\* results = calc.calc_strains()
CalcStrains ==
    /\ Remember("calc_strains", calc_strains(calc))
    /\ UNCHANGED <<calc, keep, threads>>

\* calc.calc_bridge_output()
CalcBridgeOutput ==
    /\ Remember("calc_bridge_output", calc_bridge_output(calc))
    /\ UNCHANGED <<calc, keep, threads>>

\* calc_theory1_strain(...) on the values the instance holds
CalcTheory1Strain ==
    /\ Remember("calc_theory1_strain",
                calc_theory1_strain(calc.F, calc.x_F, calc.x_b, calc.L_b,
                                    calc.D_o_s, calc.D_i_s, calc.h_b,
                                    calc.e_b, calc.E_s))
    /\ UNCHANGED <<calc, keep, threads>>

\* calc.h_b = h
SetH ==
    \E h \in Range(heights) :
        /\ calc' = [calc EXCEPT !.h_b = h]
        /\ UNCHANGED <<log, keep, threads>>

\* The fields are plain attributes, and a caller may assign any of them a
\* Python float.  (The sweeps assign F and h_b numpy scalars, which differ
\* from Python floats in one thing, a division by zero: SetF and SetH are in
\* no specification that reaches a zero divisor.)
Loads == {FromInt[0], FromInt[1962]}

Moduli == {FromInt[0], FromInt[140000]}

InnerDiameters == {FromInt[32], FromInt[38]}

Diameters == {FromInt[-32], FromInt[0], FromInt[32], FromInt[38]}

Widths == {FromInt[10], FromInt[12], FromInt[15]}

BeamModuli == {FromInt[69000], FromInt[70000]}

AssignF ==
    \E F \in Loads :
        /\ calc' = [calc EXCEPT !.F = F]
        /\ UNCHANGED <<log, keep, threads>>

AssignE_s ==
    \E E \in Moduli :
        /\ calc' = [calc EXCEPT !.E_s = E]
        /\ UNCHANGED <<log, keep, threads>>

AssignD_i_s ==
    \E D \in InnerDiameters :
        /\ calc' = [calc EXCEPT !.D_i_s = D]
        /\ UNCHANGED <<log, keep, threads>>

AssignDiameter ==
    \E D \in Diameters :
        /\ \/ calc' = [calc EXCEPT !.D_o_s = D]
           \/ calc' = [calc EXCEPT !.D_i_s = D]
        /\ UNCHANGED <<log, keep, threads>>

AssignB ==
    \E b \in Widths :
        /\ calc' = [calc EXCEPT !.b = b]
        /\ UNCHANGED <<log, keep, threads>>

AssignE_b ==
    \E E \in BeamModuli :
        /\ calc' = [calc EXCEPT !.E_b = E]
        /\ UNCHANGED <<log, keep, threads>>

\* I_s = calc.calc_shaft_inertia()
CalcShaftInertia ==
    /\ Remember("calc_shaft_inertia", Return(calc_shaft_inertia(calc)))
    /\ UNCHANGED <<calc, keep, threads>>

\* I_b = calc.calc_beam_inertia()
CalcBeamInertia ==
    /\ Remember("calc_beam_inertia", Return(calc_beam_inertia(calc)))
    /\ UNCHANGED <<calc, keep, threads>>

\* calc.calc_curvature(x_gauge)
CalcCurvature ==
    /\ Remember("calc_curvature",
                calc_curvature(calc, calc_gauge_position(calc)))
    /\ UNCHANGED <<calc, keep, threads>>

\* The force sweep, with the standalone function beside the calculator.
Next == SetF \/ CalcStrains \/ CalcBridgeOutput \/ CalcTheory1Strain

Spec == Init /\ [][Next]_vars

\* The specifications below remember the latest call only, or two.
InitOne ==
    /\ calc = OarStrainCalculator
    /\ log = <<>>
    /\ keep = 1
    /\ NoThreads

\* Both sweeps.
NextSweeps ==
    SetF \/ SetH \/ CalcStrains \/ CalcBridgeOutput \/ CalcTheory1Strain

SpecSweeps == InitOne /\ [][NextSweeps]_vars

\* Loads, shaft moduli and inner diameters, the degenerate ones among them.
NextGeometry ==
    \/ AssignF
    \/ AssignE_s
    \/ AssignD_i_s
    \/ CalcShaftInertia
    \/ CalcCurvature
    \/ CalcStrains
    \/ CalcBridgeOutput
    \/ CalcTheory1Strain

SpecGeometry == InitOne /\ [][NextGeometry]_vars

\* The shaft's diameters, of either sign.
NextInertia == AssignDiameter \/ CalcShaftInertia

SpecInertia == Init /\ [][NextInertia]_vars

\* The beam's width and modulus.
NextBeam ==
    AssignB \/ AssignE_b \/ CalcBeamInertia \/ CalcStrains \/ CalcBridgeOutput

SpecBeam == Init /\ [][NextBeam]_vars

---------------------------------------------------------------------------
(* Concurrent callers.  One thread runs a parametric study on calc: its    *)
(* evaluations assign nothing, so only its assignments are steps.  Another *)
(* evaluates calc_strains and then calc_bridge_output on calc, if the      *)
(* instance is shared, or on an instance of its own.  The interpreter      *)
(* switches threads between bytecodes; the model switches between the      *)
(* statements that read a field.                                           *)

\* The instance the evaluating caller uses.
inst == IF shared THEN calc ELSE own

\* The field a study assigns and the values it assigns, in order.
field == [force |-> "F", geometry |-> "h_b"]

values == [force |-> forces, geometry |-> heights]

InitShared ==
    /\ calc = OarStrainCalculator
    /\ log = <<>>
    /\ keep = 1
    /\ shared \in BOOLEAN
    /\ own = OarStrainCalculator
    /\ sweep \in [study : {"force", "geometry"}, i : {0}]
    /\ pc = "idle"
    /\ loc = NoLocals

\* Mutant: the fields are attributes of the class, which every instance
\* reads.
SweepAssignClass ==
    /\ sweep.i < Len(values[sweep.study])
    /\ sweep' = [sweep EXCEPT !.i = sweep.i + 1]
    /\ calc' = [calc EXCEPT ![field[sweep.study]] =
                                values[sweep.study][sweep.i + 1]]
    /\ own' = calc'
    /\ UNCHANGED <<log, keep, shared, pc, loc>>

\* for F in forces: calc.F = F, and for h in heights: calc.h_b = h
SweepAssign ==
    /\ sweep.i < Len(values[sweep.study])
    /\ sweep' = [sweep EXCEPT !.i = sweep.i + 1]
    /\ calc' = [calc EXCEPT ![field[sweep.study]] =
                                values[sweep.study][sweep.i + 1]]
    /\ UNCHANGED <<log, keep, shared, own, pc, loc>>

\* The evaluating caller goes from statement `from` to statement `to`.
Goto(from, to) ==
    /\ pc = from
    /\ pc' = to
    /\ UNCHANGED <<calc, log, keep, shared, own, sweep>>

\* results = calc.calc_strains()
CallStrains ==
    /\ Goto("idle", "x_gauge")
    /\ loc' = [loc EXCEPT !.frame = "caller"]

\* x_gauge = self.calc_gauge_position()
StepGaugePosition ==
    /\ Goto("x_gauge", "y_b")
    /\ loc' = [loc EXCEPT !.x_gauge = calc_gauge_position(inst)]

\* y_b = self.D_o_s / 2.0 + self.e_b
StepY_b ==
    /\ Goto("y_b", "y_top")
    /\ loc' = [loc EXCEPT !.y_b = fadd[fdiv[inst.D_o_s, FromInt[2]], inst.e_b]]

\* y_top = y_b + self.h_b / 2.0
StepY_top ==
    /\ Goto("y_top", "y_bottom")
    /\ loc' = [loc EXCEPT !.y_top = fadd[loc.y_b, fdiv[inst.h_b, FromInt[2]]]]

\* y_bottom = y_b - self.h_b / 2.0
StepY_bottom ==
    /\ Goto("y_bottom", "I_s")
    /\ loc' = [loc EXCEPT
                   !.y_bottom = fsub[loc.y_b, fdiv[inst.h_b, FromInt[2]]]]

\* I_s = self.calc_shaft_inertia()
StepShaftInertia ==
    /\ Goto("I_s", "kappa")
    /\ loc' = [loc EXCEPT !.I_s = calc_shaft_inertia(inst)]

\* return self.F * (self.x_F - x) / (self.E_s * I_s)
StepCurvature ==
    LET divisor == fmul[inst.E_s, loc.I_s] IN
    IF IsZero(divisor)
    THEN /\ Goto("kappa", "ZeroDivisionError")
         /\ loc' = loc
    ELSE /\ Goto("kappa", "return")
         /\ loc' = [loc EXCEPT
                        !.kappa = fdiv[fmul[inst.F,
                                            fsub[inst.x_F, loc.x_gauge]],
                                       divisor]]

\* The strains and the return of calc_strains: to the caller, which goes on
\* to call calc_bridge_output, whose first statement calls calc_strains; or
\* to calc_bridge_output, which takes delta_eps out of the results.
StepReturn ==
    LET results == strains(loc.x_gauge, loc.y_b, loc.y_top, loc.y_bottom,
                           loc.kappa)
    IN  IF loc.frame = "caller"
        THEN /\ Goto("return", "x_gauge")
             /\ loc' = [NoLocals EXCEPT !.frame = "calc_bridge_output",
                                        !.results = results]
        ELSE /\ Goto("return", "V_ratio")
             /\ loc' = [NoLocals EXCEPT !.frame = "calc_bridge_output",
                                        !.results = loc.results,
                                        !.delta_eps = results.delta_eps]

\* return (self.GF / 2.0) * delta_eps
StepBridgeRatio ==
    /\ Goto("V_ratio", "done")
    /\ loc' = [loc EXCEPT
                   !.frame = "caller",
                   !.V_ratio = fmul[fdiv[inst.GF, FromInt[2]], loc.delta_eps]]

NextShared ==
    \/ SweepAssign
    \/ CallStrains
    \/ StepGaugePosition
    \/ StepY_b
    \/ StepY_top
    \/ StepY_bottom
    \/ StepShaftInertia
    \/ StepCurvature
    \/ StepReturn
    \/ StepBridgeRatio

SpecShared == InitShared /\ [][NextShared]_vars

---------------------------------------------------------------------------
(* What the claims are stated with                                         *)

\* The places in the log of the calls of op that returned a value.
Returned(op) == {i \in DOMAIN log : log[i].op = op /\ ~Raised(log[i].ret)}

\* The value that call i returned.
Val(i) == log[i].ret.val

StrainKeys == {"eps_top", "eps_bottom", "delta_eps"}

MicroKeys == {"eps_top_ustrain", "eps_bottom_ustrain", "delta_eps_ustrain"}

\* Sixteen units of roundoff: 16 * 2^(-Prec).
Tol == <<Pow2[Prec - 1], 5 - 2 * Prec>>

\* x and y differ by no more than sixteen units of roundoff of scale.
Near[x \in Flt, y \in Flt, scale \in Flt] ==
    fle[fabs[fsub[x, y]], fmul[Tol, fabs[scale]]]

\* The size of the strains of a result, which its rounding errors scale with.
Scale(v) == fmax[fabs[v.eps_top], fabs[v.eps_bottom]]

ScaleMicro(v) == fmax[fabs[v.eps_top_ustrain], fabs[v.eps_bottom_ustrain]]

\* D_o_s > D_i_s > 0, L_b > 0, E_s > 0
ValidGeometry(self) ==
    /\ flt[self.D_i_s, self.D_o_s]
    /\ flt[Zero, self.D_i_s]
    /\ flt[Zero, self.L_b]
    /\ flt[Zero, self.E_s]

\* C1 as stated: on the same values, calc_theory1_strain and calc_strains
\* return the same three strains and the same three microstrains.
C1_SameOutputs ==
    \A i \in Returned("calc_strains"), j \in Returned("calc_theory1_strain") :
        log[i].self = log[j].self =>
            \A k \in StrainKeys \cup MicroKeys : Val(i)[k] = Val(j)[k]

\* C1 amended: on the same values, the strains and the microstrains of
\* calc_theory1_strain and of calc_strains agree to within rounding, sixteen
\* units of roundoff of the larger surface strain.
C1_SameUpToRounding ==
    \A i \in Returned("calc_strains"), j \in Returned("calc_theory1_strain") :
        log[i].self = log[j].self =>
            /\ \A k \in StrainKeys : Near[Val(i)[k], Val(j)[k], Scale(Val(i))]
            /\ \A k \in MicroKeys :
                   Near[Val(i)[k], Val(j)[k], ScaleMicro(Val(i))]

\* Both were evaluated on the same values and their top strains differ.
C1_Witness ==
    \E i \in Returned("calc_strains"), j \in Returned("calc_theory1_strain") :
        /\ log[i].self = log[j].self
        /\ Val(i).eps_top # Val(j).eps_top

\* The curvature at the gauge for the values self holds.
Curvature(self) == calc_curvature(self, calc_gauge_position(self)).val

\* C2 as stated: for a valid geometry, delta_eps is eps_top - eps_bottom
\* and is curvature * h_b, in calc_strains and in calc_theory1_strain.
C2_Exact ==
    \A i \in Returned("calc_strains") \cup Returned("calc_theory1_strain") :
        ValidGeometry(log[i].self) =>
            /\ Val(i).delta_eps = fsub[Val(i).eps_top, Val(i).eps_bottom]
            /\ Val(i).delta_eps = fmul[Curvature(log[i].self), log[i].self.h_b]

\* C2 amended: for a valid geometry, delta_eps is eps_top - eps_bottom and
\* is curvature * h_b to within rounding (sixteen units of roundoff of the
\* larger surface strain) in both; in calc_strains the first holds exactly.
C2_UpToRounding ==
    /\ \A i \in Returned("calc_strains") :
           ValidGeometry(log[i].self) =>
               /\ Val(i).curvature = Curvature(log[i].self)
               /\ Val(i).delta_eps = fsub[Val(i).eps_top, Val(i).eps_bottom]
    /\ \A i \in Returned("calc_strains") \cup Returned("calc_theory1_strain") :
           ValidGeometry(log[i].self) =>
               /\ Near[Val(i).delta_eps,
                       fsub[Val(i).eps_top, Val(i).eps_bottom], Scale(Val(i))]
               /\ Near[Val(i).delta_eps,
                       fmul[Curvature(log[i].self), log[i].self.h_b],
                       Scale(Val(i))]

\* calc_theory1_strain returned, for a valid geometry, a delta_eps that is
\* not its eps_top - eps_bottom.
C2_Witness ==
    \E i \in Returned("calc_theory1_strain") :
        /\ ValidGeometry(log[i].self)
        /\ Val(i).delta_eps # fsub[Val(i).eps_top, Val(i).eps_bottom]

\* Call j was made after call i, by the same operation, on the values of
\* call i but for F, which is k times the F of call i.
ScaledBy(i, j, k) ==
    /\ i = j + 1
    /\ log[i].op = log[j].op
    /\ log[j].self = [log[i].self EXCEPT !.F = fmul[k, log[i].self.F]]
    /\ ~Raised(log[i].ret)
    /\ ~Raised(log[j].ret)

\* The factors F is seen scaled by: the quotients of two forces.
Factors == {fdiv[F2, F1] : F1 \in Range(forces) \ {Zero}, F2 \in Range(forces)}

IsPowerOfTwo(k) == Abs(k[1]) = Pow2[Prec - 1]

LinearKeys == {"curvature", "eps_top", "eps_bottom", "delta_eps"}

ScaleBridge(self) ==
    fmul[fdiv[self.GF, FromInt[2]], Scale(calc_strains(self).val)]

SameOutcome(i, j) ==
    /\ log[i].ret.exc = log[j].ret.exc
    /\ ~Raised(log[i].ret) => Val(i) = Val(j)

\* C8: a call leaves every field of the calculator as it was, and two calls
\* of one operation on the same field values give the same outcome, whatever
\* was assigned or evaluated in between.
C8_Pure ==
    /\ [][log' # log => calc' = calc]_vars
    /\ [](\A i, j \in DOMAIN log :
              (log[i].op = log[j].op /\ log[i].self = log[j].self) =>
                  SameOutcome(i, j))

\* Two calls of calc_strains on the same field values are in the log, and F
\* was reassigned since.
C8_Witness ==
    /\ Len(log) = 2
    /\ log[1].op = "calc_strains"
    /\ log[2].op = "calc_strains"
    /\ log[1].self = log[2].self
    /\ calc.F # log[1].self.F

\* The operations that divide by E_s * I_s.
Dividing ==
    {"calc_curvature", "calc_strains", "calc_bridge_output",
     "calc_theory1_strain"}

\* The divisor E_s * I_s the code computes for the values self holds.
Divisor(self) == fmul[self.E_s, calc_shaft_inertia(self)]

AllZero(i) ==
    CASE log[i].op = "calc_strains" ->
             \A key \in LinearKeys \cup MicroKeys : IsZero(Val(i)[key])
      [] log[i].op = "calc_theory1_strain" ->
             \A key \in StrainKeys \cup MicroKeys : IsZero(Val(i)[key])
      [] OTHER -> IsZero(Val(i))

\* C4 as stated: with F = 0, the curvature, the strains, the microstrains
\* and the bridge ratio a call returns are exactly 0, in any configuration.
C4_ZeroForceAllZero ==
    \A i \in DOMAIN log :
        (log[i].op \in Dividing /\ IsZero(log[i].self.F)) =>
            /\ ~Raised(log[i].ret)
            /\ AllZero(i)

\* C4 amended: with F = 0 and a computed E_s * I_s that is not zero, the
\* curvature, the strains, the microstrains and the bridge ratio a call
\* returns are exactly 0; with F = 0 and E_s * I_s zero the call raises.
C4_ZeroForceZeroOrRaise ==
    \A i \in DOMAIN log :
        (log[i].op \in Dividing /\ IsZero(log[i].self.F)) =>
            IF IsZero(Divisor(log[i].self))
            THEN Raised(log[i].ret)
            ELSE ~Raised(log[i].ret) /\ AllZero(i)

\* calc_strains returned zeros for F = 0.
C4_Witness ==
    \E i \in Returned("calc_strains") :
        /\ IsZero(log[i].self.F)
        /\ AllZero(i)

\* The significant bits of a: the bits of its mantissa down to the last 1.
SigBits(a) ==
    IF IsZero(a) THEN 0
    ELSE Prec - The({k \in 0..(Prec - 1) :
                        /\ Abs(a[1]) % Pow2[k] = 0
                        /\ Abs(a[1]) % Pow2[k + 1] # 0})

\* D ** 4 is computed without rounding.
ExactFourth(D) == 4 * SigBits(D) <= Prec

Between(x, lo, hi) == fle[lo, x] /\ fle[x, hi]

\* C7 as stated: on the default values x_gauge is 250, I_s is 54357.8 to
\* the digit and the curvature is 1.6765e-4 to the digit.
C7_ReferenceAsStated ==
    \A i \in DOMAIN log :
        log[i].self = OarStrainCalculator =>
            /\ log[i].op = "calc_shaft_inertia" =>
                   Between(Val(i), FromRat[5435775, 100], FromRat[5435785, 100])
            /\ log[i].op = "calc_strains" =>
                   /\ Val(i).x_gauge = FromInt[250]
                   /\ Between(Val(i).curvature, FromRat[167645, 1000000000],
                              FromRat[167655, 1000000000])

\* C7 amended: on the default values x_gauge is 250, I_s is 50882.0 to the
\* digit and the curvature is 1.7903e-4 to the digit.
C7_Reference ==
    \A i \in DOMAIN log :
        log[i].self = OarStrainCalculator =>
            /\ log[i].op = "calc_shaft_inertia" =>
                   Between(Val(i), FromRat[5088195, 100], FromRat[5088205, 100])
            /\ log[i].op = "calc_strains" =>
                   /\ Val(i).x_gauge = FromInt[250]
                   /\ Between(Val(i).curvature, FromRat[179025, 1000000000],
                              FromRat[179035, 1000000000])

\* calc_strains returned on the default values.
C7_Witness ==
    \E i \in Returned("calc_strains") : log[i].self = OarStrainCalculator

\* C9: two configurations that differ in b and E_b only have the same
\* calc_strains result and the same calc_bridge_output value.
C9_BeamInert ==
    \A i, j \in DOMAIN log :
        (/\ log[i].op = log[j].op
         /\ log[i].op \in {"calc_strains", "calc_bridge_output"}
         /\ log[i].self = [log[j].self EXCEPT !.b = log[i].self.b,
                                              !.E_b = log[i].self.E_b]) =>
            SameOutcome(i, j)

\* calc_strains returned twice, on values that differ in b and in E_b, for
\* which calc_beam_inertia differs.
C9_Witness ==
    \E i, j \in Returned("calc_strains") :
        /\ log[i].self.b # log[j].self.b
        /\ log[i].self.E_b # log[j].self.E_b
        /\ calc_beam_inertia(log[i].self) # calc_beam_inertia(log[j].self)

\* The caller's results are those of the sequential program on the instance
\* it uses, as that instance is now.
Sequential ==
    /\ loc.results = calc_strains(inst).val
    /\ loc.V_ratio = calc_bridge_output(inst).val

\* The values the field of the running study has held or will hold.
Held == Range(values[sweep.study]) \cup {OarStrainCalculator[field[sweep.study]]}

\* The caller's results are those of the sequential program for some value
\* of the field the study assigns.
SomeConfiguration ==
    \E v \in Held :
        LET self == [OarStrainCalculator EXCEPT ![field[sweep.study]] = v]
        IN  /\ loc.results = calc_strains(self).val
            /\ loc.V_ratio = calc_bridge_output(self).val

\* C10: a caller that evaluates on an instance of its own, while a study
\* reassigns F or h_b of another, obtains the sequential results; results
\* that are those of no single configuration come from a shared instance.
C10_OwnInstanceSequential ==
    pc = "done" =>
        /\ ~shared => Sequential
        /\ ~SomeConfiguration => shared

\* On a shared instance a caller obtained y_top and y_bottom of different
\* h_b.
C10_Witness ==
    /\ pc = "done"
    /\ shared
    /\ sweep.study = "geometry"
    /\ ~SomeConfiguration
    /\ fsub[loc.results.y_top, loc.results.y_b]
           # fsub[loc.results.y_b, loc.results.y_bottom]

\* On a shared instance a caller obtained a bridge ratio that is not that of
\* the delta_eps in its results, F being reassigned between the two calls.
C10_WitnessForce ==
    /\ pc = "done"
    /\ shared
    /\ sweep.study = "force"
    /\ ~SomeConfiguration
    /\ loc.V_ratio # fmul[fdiv[inst.GF, FromInt[2]], loc.results.delta_eps]

=============================================================================
